---- MODULE Spec2Model ----
(***************************************************************************)
(* jive.conc.Promise (src/src/conc/promise.js): a single-fire result       *)
(* container mixed into jive.conc.observable, with cancellation and a      *)
(* timeout driven by the host's setTimeout/clearTimeout.                   *)
(*                                                                         *)
(* The closure variables of the constructor (hasFired, cancelled,          *)
(* timeoutDuration, timer) are the state; the listener table belongs to    *)
(* the observable mixin, the set of scheduled callbacks to the host timer  *)
(* facility.  The methods are operators from a state record to a state     *)
(* record, so that a listener that calls back into the promise runs inside *)
(* the emission that invoked it, as it does in the single-threaded source. *)
(***************************************************************************)
EXTENDS Integers, Sequences, FiniteSets, TLC

\* ---------------------------------------------------------------- bounds
\* Total number of addCallback/addErrback/addCancelback calls explored.
MaxListeners == 2

\* Total number of emissions explored where the observable's emit is called
\* directly.
MaxEmits == 2

\* ---------------------------------------------------------------- values
\* JavaScript `undefined` for timeoutDuration and for timeout()'s result;
\* the delays explored are numbers >= 0, so -1 is free to stand for it.
Undefined == -1
\* The receiver (`return this`), as a returned value.
This == -2
\* A falsy timer (declared without a value at line 112, null at 246/250);
\* only its truthiness is ever tested (line 244).  Host handles are 1, 2, ...
NoTimer == 0

\* The delays passed to timeout(delay).
Delays == {50, 100}

\* The event argument a producer passes to emitSuccess / emitError.
Args == {"ok"}
\* The argument a listener passes when it calls back into the promise.
LateArg == "late"
\* new Error('timeout') at line 252: a fresh object, equal to no producer value.
TimeoutError == "Error: timeout"

Events == {"success", "error", "cancel"}

\* What a registered listener function does when it is invoked: nothing to
\* the promise, or a call back into it (emitSuccess, emitError, cancel).
Fns == {"plain", "reSuccess", "reError", "reCancel"}

\* Listener functions that do not touch the promise: one returns, one raises.
RaisingFns == {"plain", "throw"}

\* What emit does with an exception a listener raised, once the remaining
\* listeners have run: drop it, or raise it to emit's caller.
Policies == {"swallow", "rethrow"}

VARIABLES
    hasFired,        \* line 109
    cancelled,       \* line 110
    timeoutDuration, \* line 111
    timer,           \* line 112
    listeners,       \* observable: event name -> sequence of registrations
    scheduled,       \* host timers: set of [id, delay] not yet fired or cleared
    nextReg,         \* history: number of registrations made so far
    log,             \* history: listener invocations, in order
    emits,           \* history: emit calls, in order
    lastDelay,       \* history: argument of the latest timeout(delay) call
    op               \* the latest call: its name, the value it returned and
                     \* whether it raised

\* Everything but the record of the latest call.
state == <<hasFired, cancelled, timeoutDuration, timer, listeners, scheduled,
           nextReg, log, emits, lastDelay>>

vars == <<hasFired, cancelled, timeoutDuration, timer, listeners, scheduled,
          nextReg, log, emits, lastDelay, op>>

\* The promise, its observable and the host timers as one record, with the
\* control state of the call in progress: the observable's policy for
\* exceptions, whether an exception is propagating, and the handles the call
\* has handed back to the host with clearTimeout.
cur ==
    [hasFired |-> hasFired, cancelled |-> cancelled,
     timeoutDuration |-> timeoutDuration, timer |-> timer,
     listeners |-> listeners, scheduled |-> scheduled,
     nextReg |-> nextReg,
     log |-> log, emits |-> emits,
     policy |-> "swallow", raised |-> FALSE, freed |-> {}]

\* The same, under an observable with exception policy pol.
curWith(pol) == [cur EXCEPT !.policy = pol]

\* ------------------------------------------------------------ observable
\* A registration is the listener function, tagged (history) with the values
\* hasFired and cancelled had when it was made.
addListener(st, name, f) ==
    [st EXCEPT !.listeners[name] =
                   Append(@, [f |-> f, fired |-> st.hasFired,
                              cancelled |-> st.cancelled]),
               !.nextReg = @ + 1]

\* A variant of removeListener that removes one listener, the latest.
removeListener_dropsLast(st, name) ==
    [st EXCEPT !.listeners[name] =
                   IF @ = <<>> THEN @ ELSE SubSeq(@, 1, Len(@) - 1)]

removeListener(st, name) ==
    [st EXCEPT !.listeners[name] = <<>>]

RECURSIVE notify(_, _, _, _, _)
RECURSIVE emitSuccess(_, _)
RECURSIVE emitError(_, _)
RECURSIVE cancel(_)

\* The body of a listener function, run with the event's arguments.  A
\* listener that calls back does nothing after the call, so an exception
\* that call raises leaves the listener as it is.
invoke(st, l, name, args) ==
    LET st1 == [st EXCEPT !.log = Append(@, [event |-> name, to |-> l,
                                              args |-> args])]
    IN CASE l.f = "plain"     -> st1
         [] l.f = "throw"     -> [st1 EXCEPT !.raised = TRUE]
         [] l.f = "reSuccess" -> emitSuccess(st1, LateArg)
         [] l.f = "reError"   -> emitError(st1, LateArg)
         [] l.f = "reCancel"  -> cancel(st1)

\* The listeners registered when emit was called, in registration order.
\* Each invocation is isolated: an exception is caught, the remaining
\* listeners run, and at the end the policy decides whether emit raises.
notify(st, ls, name, args, caught) ==
    IF ls = <<>>
    THEN [st EXCEPT !.raised = caught /\ st.policy = "rethrow"]
    ELSE LET r == invoke(st, Head(ls), name, args)
         IN notify([r EXCEPT !.raised = FALSE], Tail(ls), name, args,
                   caught \/ r.raised)

emit(st, name, args) ==
    notify([st EXCEPT !.emits = Append(@, [event |-> name, args |-> args])],
           st.listeners[name], name, args, FALSE)

\* --------------------------------------------------------------- promise
\* A variant of addCallback that registers for the wrong event.
addCallback_asErrback(st, f) == addListener(st, "error", f)

\* A variant of addCallback that replays: on a promise that has emitted
\* 'success' it invokes the new listener at once with the emitted argument.
addCallback_replays(st, f) ==
    LET st1 == addListener(st, "success", f)
        ss == SelectSeq(st.emits, LAMBDA e : e.event = "success")
        l == st1.listeners["success"][Len(st1.listeners["success"])]
    IN IF ss # <<>>
       THEN invoke(st1, l, "success", ss[1].args)
       ELSE st1

addCallback(st, f) == addListener(st, "success", f)

addErrback(st, f) == addListener(st, "error", f)

addCancelback(st, f) == addListener(st, "cancel", f)

\* A variant of emitSuccess that keeps a flag of its own instead of sharing
\* hasFired with emitError.
emitSuccess_ownFlag(st, args) ==
    IF \A i \in DOMAIN st.emits : st.emits[i].event # "success"
    THEN emit([st EXCEPT !.hasFired = TRUE],
              "success", args)
    ELSE st

\* A variant of emitSuccess that takes hasFired back when the emission
\* raised.
emitSuccess_rollback(st, args) ==
    IF ~st.hasFired
    THEN LET r == emit([st EXCEPT !.hasFired = TRUE], "success", args)
         IN IF r.raised THEN [r EXCEPT !.hasFired = FALSE] ELSE r
    ELSE st

emitSuccess(st, args) ==
    IF ~st.hasFired
    THEN emit([st EXCEPT !.hasFired = TRUE],
              "success", args)
    ELSE st

\* A variant of emitError that keeps a flag of its own instead of sharing
\* hasFired with emitSuccess.
emitError_ownFlag(st, args) ==
    IF \A i \in DOMAIN st.emits : st.emits[i].event # "error"
    THEN emit([st EXCEPT !.hasFired = TRUE],
              "error", args)
    ELSE st

emitError(st, args) ==
    IF ~st.hasFired
    THEN emit([st EXCEPT !.hasFired = TRUE],
              "error", args)
    ELSE st

emitCancel(st) == emit(st, "cancel", "")

\* A variant of cancel that cancels again when listeners were attached since.
cancel_whileListeners(st) ==
    IF \/ ~st.cancelled
       \/ st.listeners["success"] # <<>>
       \/ st.listeners["error"] # <<>>
    THEN emitCancel(
             removeListener(
                 removeListener([st EXCEPT !.cancelled = TRUE], "success"),
                 "error"))
    ELSE st

\* A variant of cancel that toggles the flag: a second call un-cancels.
cancel_toggle(st) ==
    IF ~st.cancelled
    THEN emitCancel(
             removeListener(
                 removeListener([st EXCEPT !.cancelled = TRUE], "success"),
                 "error"))
    ELSE [st EXCEPT !.cancelled = FALSE]

\* A variant of cancel that forgets line 214: error listeners stay attached.
cancel_keepsError(st) ==
    IF ~st.cancelled
    THEN emitCancel(removeListener([st EXCEPT !.cancelled = TRUE], "success"))
    ELSE st

\* A variant of cancel that also marks the promise as fired.
cancel_setsFired(st) ==
    IF ~st.cancelled
    THEN emitCancel(
             removeListener(
                 removeListener([st EXCEPT !.cancelled = TRUE,
                                           !.hasFired = TRUE], "success"),
                 "error"))
    ELSE st

\* A variant of cancel that removes the success and error listeners after
\* emitting 'cancel' instead of before.
cancel_removesLast(st) ==
    IF ~st.cancelled
    THEN removeListener(
             removeListener(emitCancel([st EXCEPT !.cancelled = TRUE]),
                            "success"),
             "error")
    ELSE st

\* A variant of cancel that also clears the pending timer.
cancel_clearsTimer(st) ==
    IF ~st.cancelled
    THEN LET st1 == [st EXCEPT !.scheduled = {t \in @ : t.id # st.timer},
                               !.timer = NoTimer]
         IN emitCancel(
                removeListener(
                    removeListener([st1 EXCEPT !.cancelled = TRUE], "success"),
                    "error"))
    ELSE st

\* A variant of cancel that raises when the promise is already cancelled.
cancel_raisesWhenCancelled(st) ==
    IF ~st.cancelled
    THEN emitCancel(
             removeListener(
                 removeListener([st EXCEPT !.cancelled = TRUE], "success"),
                 "error"))
    ELSE [st EXCEPT !.raised = TRUE]

cancel(st) ==
    IF ~st.cancelled
    THEN emitCancel(
             removeListener(
                 removeListener([st EXCEPT !.cancelled = TRUE], "success"),
                 "error"))
    ELSE st

\* clearTimeout(handle): the host forgets the callback.
clearTimeout(st, h) ==
    [st EXCEPT !.scheduled = {t \in @ : t.id # h},
               !.freed = @ \cup {h}]

\* The delays of the pending callbacks clearTimeout(h) makes the host forget:
\* none when h is null or its callback has run.
clearedBy(st, h) == {t.delay : t \in {u \in st.scheduled : u.id = h}}

\* A handle the host has not given to any pending callback, nor to the
\* callback the call in progress has just cleared: the timer of a rearm is
\* another timer than the one it replaces.  Handles are opaque otherwise:
\* the source only tests them for truthiness and hands them back to
\* clearTimeout.
newHandle(st) ==
    CHOOSE h \in 1..(Cardinality(st.scheduled) + Cardinality(st.freed) + 1) :
        /\ h \notin st.freed
        /\ \A t \in st.scheduled : t.id # h

\* setTimeout(callback, delay): the host schedules the callback and returns
\* its handle, which line 249 stores in timer.
setTimeout(st, delay) ==
    LET h == newHandle(st)
    IN [st EXCEPT !.scheduled = @ \cup {[id |-> h, delay |-> delay]},
                  !.timer = h]

\* A variant of timeout that arms a new timer without clearing the pending one.
timeout_noClear(st, delay) ==
    IF delay = Undefined
    THEN [st |-> st, ret |-> st.timeoutDuration, cleared |-> {}]
    ELSE LET st1 == [st EXCEPT !.timeoutDuration = delay]
         IN [st |-> setTimeout(st1, st1.timeoutDuration), ret |-> This,
             cleared |-> {}]

\* A variant of timeout that records the delay only the first time.
timeout_keepsFirst(st, delay) ==
    IF delay = Undefined
    THEN [st |-> st, ret |-> st.timeoutDuration, cleared |-> {}]
    ELSE LET st1 == IF st.timeoutDuration = Undefined
                    THEN [st EXCEPT !.timeoutDuration = delay]
                    ELSE st
             st2 == IF st1.timer # NoTimer
                    THEN [clearTimeout(st1, st1.timer) EXCEPT !.timer = NoTimer]
                    ELSE st1
         IN [st |-> setTimeout(st2, st2.timeoutDuration), ret |-> This,
             cleared |-> clearedBy(st1, st1.timer)]

\* timeout(timeout), lines 238-257: the accessor when the argument is
\* undefined, else record the delay, clear a pending timer and arm a new one.
\* The result is the state afterwards, the value returned and the delays of
\* the pending callbacks the call cleared.
timeout(st, delay) ==
    IF delay = Undefined
    THEN [st |-> st, ret |-> st.timeoutDuration, cleared |-> {}]
    ELSE LET st1 == [st EXCEPT !.timeoutDuration = delay]
             st2 == IF st1.timer # NoTimer
                    THEN [clearTimeout(st1, st1.timer) EXCEPT !.timer = NoTimer]
                    ELSE st1
         IN [st |-> setTimeout(st2, st2.timeoutDuration), ret |-> This,
             cleared |-> clearedBy(st1, st1.timer)]

\* A variant of the timer callback that emits 'error' directly instead of
\* going through emitError.
timerCallback_rawEmit(st) ==
    LET st1 == [st EXCEPT !.timer = NoTimer]
    IN IF ~st1.hasFired /\ ~st1.cancelled
       THEN emit(st1, "error", TimeoutError)
       ELSE st1

\* A variant of the timer callback that tests hasFired alone.
timerCallback_ignoresCancelled(st) ==
    LET st1 == [st EXCEPT !.timer = NoTimer]
    IN IF ~st1.hasFired
       THEN emitError(st1, TimeoutError)
       ELSE st1

\* A variant of the timer callback that forgets lines 251-253.
timerCallback_onlyClears(st) ==
    [st EXCEPT !.timer = NoTimer]

\* The callback handed to setTimeout, lines 249-254.
timerCallback(st) ==
    LET st1 == [st EXCEPT !.timer = NoTimer]
    IN IF ~st1.hasFired /\ ~st1.cancelled
       THEN emitError(st1, TimeoutError)
       ELSE st1

\* --------------------------------------------------------------- actions
Commit(st) ==
    /\ hasFired' = st.hasFired
    /\ cancelled' = st.cancelled
    /\ timeoutDuration' = st.timeoutDuration
    /\ timer' = st.timer
    /\ listeners' = st.listeners
    /\ scheduled' = st.scheduled
    /\ nextReg' = st.nextReg
    /\ log' = st.log
    /\ emits' = st.emits

Init ==
    /\ hasFired = FALSE
    /\ cancelled = FALSE
    /\ timeoutDuration = Undefined
    /\ timer = NoTimer
    /\ listeners = [e \in Events |-> <<>>]
    /\ scheduled = {}
    /\ nextReg = 0
    /\ log = <<>>
    /\ emits = <<>>
    /\ lastDelay = Undefined
    /\ op = [name |-> "new", ret |-> This, raised |-> FALSE]

AddCallback ==
    \E f \in Fns :
        /\ nextReg < MaxListeners
        /\ Commit(addCallback(cur, f))
        /\ op' = [name |-> "addCallback", ret |-> This, raised |-> FALSE]
        /\ UNCHANGED lastDelay

AddErrback ==
    \E f \in Fns :
        /\ nextReg < MaxListeners
        /\ Commit(addErrback(cur, f))
        /\ op' = [name |-> "addErrback", ret |-> This, raised |-> FALSE]
        /\ UNCHANGED lastDelay

AddCancelback ==
    \E f \in Fns :
        /\ nextReg < MaxListeners
        /\ Commit(addCancelback(cur, f))
        /\ op' = [name |-> "addCancelback", ret |-> This, raised |-> FALSE]
        /\ UNCHANGED lastDelay

EmitSuccess ==
    \E a \in Args :
        LET st == emitSuccess(cur, a)
        IN /\ Commit(st)
           /\ op' = [name |-> "emitSuccess", ret |-> Undefined,
                     raised |-> st.raised]
           /\ UNCHANGED lastDelay

EmitError ==
    \E a \in Args :
        LET st == emitError(cur, a)
        IN /\ Commit(st)
           /\ op' = [name |-> "emitError", ret |-> Undefined,
                     raised |-> st.raised]
           /\ UNCHANGED lastDelay

Cancel ==
    LET st == cancel(cur)
    IN /\ Commit(st)
       /\ op' = [name |-> "cancel", ret |-> Undefined, raised |-> st.raised]
       /\ UNCHANGED lastDelay

\* timeout(delay) with a delay.  op also records the pending timers the call
\* cleared.
TimeoutSet ==
    \E d \in Delays :
        LET r == timeout(cur, d)
        IN /\ Commit(r.st)
           /\ lastDelay' = d
           /\ op' = [name |-> "timeout", arg |-> d, ret |-> r.ret,
                     raised |-> FALSE,
                     cleared |-> r.cleared]

\* timeout() with no argument.
TimeoutGet ==
    LET r == timeout(cur, Undefined)
    IN /\ Commit(r.st)
       /\ op' = [name |-> "timeout()", ret |-> r.ret, raised |-> FALSE]
       /\ UNCHANGED lastDelay

\* The host runs a scheduled callback (once) and forgets it.
TimerFire ==
    \E t \in scheduled :
        LET st == timerCallback([cur EXCEPT !.scheduled = @ \ {t}])
        IN /\ Commit(st)
           /\ op' = [name |-> "timer", ret |-> Undefined, raised |-> st.raised]
           /\ UNCHANGED lastDelay

Next ==
    \/ AddCallback
    \/ AddErrback
    \/ AddCancelback
    \/ EmitSuccess
    \/ EmitError
    \/ Cancel
    \/ TimeoutSet
    \/ TimeoutGet
    \/ TimerFire

Spec == Init /\ [][Next]_vars

\* ------------------------------------------------- the mixed-in observable
\* jive.conc.observable(this) at line 107 puts addListener, removeListener
\* and emit on the promise itself.  These actions call them directly, with
\* listeners that may raise.
AddListener ==
    \E name \in Events, f \in RaisingFns :
        /\ nextReg < MaxListeners
        /\ Commit(addListener(cur, name, f))
        /\ op' = [name |-> "addListener", event |-> name, ret |-> This,
                  raised |-> FALSE]
        /\ UNCHANGED lastDelay

RemoveListener ==
    \E name \in Events :
        /\ Commit(removeListener(cur, name))
        /\ op' = [name |-> "removeListener", event |-> name,
                  ret |-> Undefined, raised |-> FALSE]
        /\ UNCHANGED lastDelay

Emit ==
    \E name \in Events, a \in Args, pol \in Policies :
        LET st == emit(curWith(pol), name, a)
        IN /\ Len(emits) < MaxEmits
           /\ Commit(st)
           /\ op' = [name |-> "emit", event |-> name, args |-> a,
                     ret |-> Undefined, raised |-> st.raised]
           /\ UNCHANGED lastDelay

\* ----------------------------------------------------- listeners that raise
\* emitSuccess, emitError and cancel on a promise whose listeners may raise
\* or call back into the promise, under either exception policy of the
\* observable.
RaisingEmitSuccess ==
    \E a \in Args, pol \in Policies :
        LET st == emitSuccess(curWith(pol), a)
        IN /\ Commit(st)
           /\ op' = [name |-> "emitSuccess", ret |-> Undefined,
                     raised |-> st.raised]
           /\ UNCHANGED lastDelay

RaisingEmitError ==
    \E a \in Args, pol \in Policies :
        LET st == emitError(curWith(pol), a)
        IN /\ Commit(st)
           /\ op' = [name |-> "emitError", ret |-> Undefined,
                     raised |-> st.raised]
           /\ UNCHANGED lastDelay

RaisingCancel ==
    \E pol \in Policies :
        LET st == cancel(curWith(pol))
        IN /\ Commit(st)
           /\ op' = [name |-> "cancel", ret |-> Undefined,
                     raised |-> st.raised]
           /\ UNCHANGED lastDelay

ObservableNext ==
    \/ AddListener
    \/ RemoveListener
    \/ Emit

ObservableSpec == Init /\ [][ObservableNext]_vars

RaisingNext ==
    \/ AddCallback
    \/ AddErrback
    \/ AddCancelback
    \/ AddListener
    \/ RaisingEmitSuccess
    \/ RaisingEmitError
    \/ RaisingCancel

RaisingSpec == Init /\ [][RaisingNext]_vars

\* ------------------------------------------------------------- timeouts
\* The promise with its error listeners, its producers and its timer, on a
\* host that eventually runs every callback it has scheduled, unless the
\* callback is cleared first.
TimeoutNext ==
    \/ AddErrback
    \/ EmitSuccess
    \/ EmitError
    \/ Cancel
    \/ TimeoutSet
    \/ TimeoutGet
    \/ TimerFire

\* timeout(delay) is called again and again, for ever.
RearmedForEver == []<><<TimeoutSet>>_vars

\* What the host guarantees.  A callback is cleared only by the next
\* timeout(delay) call (line 245), which schedules another: when the calls
\* never stop, every callback may be cleared before it runs and the
\* guarantee asks for nothing; when they stop, the callback of the last call
\* stays scheduled until it runs, and it does run.
HostFairness == RearmedForEver \/ WF_vars(TimerFire)

TimeoutSpec == Init /\ [][TimeoutNext]_vars /\ HostFairness

\* ---------------------------------------------------------------- claims
IsFire(e) == e.event \in {"success", "error"}

IsCancel(e) == e.event = "cancel"

IsTimeout(e) == e.event = "error" /\ e.args = TimeoutError

\* The 'success' and 'error' emissions among es, in order.
Fires(es) == SelectSeq(es, IsFire)

Cancels(es) == SelectSeq(es, IsCancel)

TimeoutErrs(es) == SelectSeq(es, IsTimeout)

\* The invocations of the listeners of one event among lg, in order.
EntriesOf(lg, name) == SelectSeq(lg, LAMBDA x : x.event = name)

\* The registrations a sequence of invocations went to.
Regs(lg) == [i \in 1..Len(lg) |-> lg[i].to]

FireOps == {"emitSuccess", "emitError"}

TerminalOps == {"emitSuccess", "emitError", "cancel"}

\* C1: over any calls of emitSuccess and emitError (and timers, and listener
\* registrations) at most one 'success' or 'error' is ever emitted; the first
\* call emits its own event, and a call made once hasFired is true invokes
\* no listener and changes nothing.
C1_FirstFireWins ==
    [][ /\ Len(Fires(emits')) <= 1
        /\ (op'.name \in FireOps /\ hasFired) => UNCHANGED state
        /\ (op'.name = "emitSuccess" /\ ~hasFired) =>
               /\ hasFired'
               /\ Len(Fires(emits')) = 1
               /\ Fires(emits')[1].event = "success"
               /\ Fires(emits')[1].args \in Args
        /\ (op'.name = "emitError" /\ ~hasFired) =>
               /\ hasFired'
               /\ Len(Fires(emits')) = 1
               /\ Fires(emits')[1].event = "error"
               /\ Fires(emits')[1].args \in Args ]_vars

\* An error listener got "ok" from emitError, and a later emitSuccess call
\* was ignored.
C1_Witness ==
    /\ op.name = "emitSuccess"
    /\ hasFired
    /\ emits = <<[event |-> "error", args |-> "ok"]>>
    /\ Len(log) = 1
    /\ log[1].event = "error"
    /\ log[1].args = "ok"

\* C2: emitSuccess, emitError and cancel together emit at most one event, and
\* once one of them has taken effect a call of any of the three changes
\* nothing.
C2_OneTerminalEvent ==
    [][ /\ Len(emits') <= 1
        /\ (op'.name \in TerminalOps /\ (hasFired \/ cancelled)) =>
               UNCHANGED state ]_vars

\* C3: 'cancel' is never emitted after a 'success' or an 'error'.
C3_CancelOnlyIfNotFired ==
    \A i \in DOMAIN emits : \A j \in DOMAIN emits :
        (i < j /\ IsCancel(emits[j])) => ~IsFire(emits[i])

\* C4: 'cancel' is emitted at most once, and a cancel() call made once
\* cancelled is true invokes no listener, removes no listener, changes no
\* flag and does not raise, whatever listeners are registered: ones that
\* raise, ones that call back into the promise, and under either exception
\* policy of the observable.
C4_CancelIdempotent ==
    [][ /\ Len(Cancels(emits')) <= 1
        /\ (op'.name = "cancel" /\ cancelled) =>
               (UNCHANGED state /\ ~op'.raised) ]_vars

\* A first cancel() invoked a cancel listener that raises.  A second
\* cancel(), made with that listener still registered and a success listener
\* attached since, invoked nobody, left the success listener in place and
\* did not raise.
C4_Witness ==
    /\ op.name = "cancel"
    /\ ~op.raised
    /\ cancelled
    /\ Len(listeners["cancel"]) = 1
    /\ listeners["cancel"][1].f = "throw"
    /\ ~listeners["cancel"][1].cancelled
    /\ Len(listeners["success"]) = 1
    /\ listeners["success"][1].cancelled
    /\ Len(Cancels(emits)) = 1
    /\ Regs(EntriesOf(log, "cancel")) = listeners["cancel"]

Pending == ~hasFired /\ ~cancelled

Fulfilled == hasFired /\ Fires(emits) # <<>> /\ Fires(emits)[1].event = "success"

Rejected == hasFired /\ Fires(emits) # <<>> /\ Fires(emits)[1].event = "error"

Cancelled == cancelled

\* The states of the spec's state machine the promise is in.
PromiseStates ==
    {s \in {"Pending", "Fulfilled", "Rejected", "Cancelled"} :
        \/ s = "Pending" /\ Pending
        \/ s = "Fulfilled" /\ Fulfilled
        \/ s = "Rejected" /\ Rejected
        \/ s = "Cancelled" /\ Cancelled}

\* C5: the promise is in exactly one of Pending, Fulfilled, Rejected and
\* Cancelled, and never leaves a terminal state.
C5_ExactlyOneState ==
    [][ /\ Cardinality(PromiseStates') = 1
        /\ ("Pending" \notin PromiseStates) => PromiseStates' = PromiseStates ]_vars

\* C6: hasFired and cancelled start false and no step turns either from true
\* to false.
C6_FlagsMonotonic ==
    /\ ~hasFired /\ ~cancelled
    /\ [][ /\ hasFired => hasFired'
           /\ cancelled => cancelled' ]_vars

\* Both flags are set and a timer has fired since.
C6_Witness ==
    /\ op.name = "timer"
    /\ hasFired
    /\ cancelled

\* cancel() took effect before any 'success' or 'error' was emitted.
CancelledBeforeFire ==
    \E j \in DOMAIN emits :
        /\ IsCancel(emits[j])
        /\ \A i \in 1..(j - 1) : ~IsFire(emits[i])

\* C7: a cancel() call on a promise that has not fired invokes every cancel
\* listener registered so far exactly once, in that call and never again, and
\* no success or error listener registered before that call is invoked from
\* then on.
C7_CancelDetaches ==
    /\ [](CancelledBeforeFire =>
              \A i \in DOMAIN log :
                  log[i].event \in {"success", "error"} =>
                      log[i].to.cancelled)
    /\ [][ /\ (op'.name = "cancel" /\ ~hasFired /\ ~cancelled) =>
                  /\ Regs(EntriesOf(log', "cancel")) = listeners["cancel"]
                  /\ EntriesOf(log', "success") = <<>>
                  /\ EntriesOf(log', "error") = <<>>
           /\ cancelled =>
                  EntriesOf(log', "cancel") = EntriesOf(log, "cancel") ]_vars

\* A success listener and a cancel listener were attached, cancel() invoked
\* the cancel listener, and the emitSuccess that followed reached nobody.
C7_Witness ==
    /\ op.name = "emitSuccess"
    /\ CancelledBeforeFire
    /\ hasFired
    /\ nextReg = 2
    /\ Len(listeners["cancel"]) = 1
    /\ listeners["success"] = <<>>
    /\ listeners["error"] = <<>>
    /\ Len(log) = 1
    /\ log[1].event = "cancel"

\* C8: a timer that fires while hasFired and cancelled are false sets hasFired
\* and emits one 'error' carrying the timeout error to every error listener,
\* in order; emitSuccess and emitError change nothing after that.
C8_TimerFiresAsError ==
    [][ /\ (op'.name = "timer" /\ ~hasFired /\ ~cancelled) =>
               /\ hasFired'
               /\ Len(emits') > Len(emits)
               /\ emits'[Len(emits) + 1] =
                      [event |-> "error", args |-> TimeoutError]
               /\ Len(Fires(emits')) = 1
               /\ Regs(EntriesOf(log', "error")) = listeners["error"]
               /\ \A i \in DOMAIN log' :
                      log'[i].event = "error" => log'[i].args = TimeoutError
        /\ (op'.name \in FireOps /\ TimeoutErrs(emits) # <<>>) =>
               UNCHANGED state ]_vars

\* The timer fired on a pending promise and an error listener received the
\* timeout error.
C8_Witness ==
    /\ op.name = "timer"
    /\ hasFired
    /\ ~cancelled
    /\ emits = <<[event |-> "error", args |-> TimeoutError]>>
    /\ Len(log) = 1
    /\ log[1].args = TimeoutError

\* C9: at most one timer callback is scheduled, it is the one of the latest
\* timeout(delay) call, and at most one timeout error is ever emitted.
C9_RearmSupersedes ==
    /\ Cardinality(scheduled) <= 1
    /\ \A t \in scheduled : t.id = timer /\ t.delay = lastDelay
    /\ Len(TimeoutErrs(emits)) <= 1

\* timeout(50) cleared the pending timer of timeout(100).
C9_Witness ==
    /\ op.name = "timeout"
    /\ op.arg = 50
    /\ op.cleared = {100}
    /\ Cardinality(scheduled) = 1

\* C10: timeout() returns the delay of the latest timeout(delay) call, or
\* undefined when there was none, and changes nothing.
C10_TimeoutAccessor ==
    [][ op'.name = "timeout()" =>
            /\ op'.ret = lastDelay
            /\ UNCHANGED state ]_vars

\* timeout() returned the recorded delay 50 while the timer was
\* still pending.
C10_Witness ==
    /\ op.name = "timeout()"
    /\ op.ret = 50
    /\ scheduled # {}
    /\ ~hasFired

AddOps == {"addCallback", "addErrback", "addCancelback"}

\* The event a registering method registers for.
EventOf(name) ==
    CASE name = "addCallback"   -> "success"
      [] name = "addErrback"    -> "error"
      [] name = "addCancelback" -> "cancel"

\* The invocations lg2 has after those of lg1.
NewEntries(lg1, lg2) == SubSeq(lg2, Len(lg1) + 1, Len(lg2))

\* C11: addCallback, addErrback and addCancelback return the promise and
\* append one registration to the list of their own event, leaving the other
\* lists alone; the first emitSuccess (emitError) of a promise that is not
\* cancelled invokes every success (error) listener registered so far once
\* per registration, in registration order, each with the emitted argument.
C11_ListenersAccumulate ==
    [][ /\ op'.name \in AddOps =>
               /\ op'.ret = This
               /\ Len(listeners'[EventOf(op'.name)]) =
                      Len(listeners[EventOf(op'.name)]) + 1
               /\ SubSeq(listeners'[EventOf(op'.name)], 1,
                         Len(listeners[EventOf(op'.name)])) =
                      listeners[EventOf(op'.name)]
               /\ \A e \in Events \ {EventOf(op'.name)} :
                      listeners'[e] = listeners[e]
               /\ log' = log
        /\ (op'.name = "emitSuccess" /\ ~hasFired /\ ~cancelled) =>
               /\ Regs(EntriesOf(log', "success")) = listeners["success"]
               /\ \A i \in DOMAIN log' :
                      log'[i].event = "success" =>
                          /\ log'[i].args \in Args
                          /\ log'[i].args = Fires(emits')[1].args
               /\ EntriesOf(log', "error") = <<>>
        /\ (op'.name = "emitError" /\ ~hasFired /\ ~cancelled) =>
               /\ Regs(EntriesOf(log', "error")) = listeners["error"]
               /\ \A i \in DOMAIN log' :
                      log'[i].event = "error" =>
                          /\ log'[i].args \in Args
                          /\ log'[i].args = Fires(emits')[1].args
               /\ EntriesOf(log', "success") = <<>> ]_vars

\* The same function was registered twice with addCallback, and emitSuccess
\* invoked it twice with "ok".
C11_Witness ==
    /\ op.name = "emitSuccess"
    /\ ~cancelled
    /\ Len(listeners["success"]) = 2
    /\ listeners["success"][1] = listeners["success"][2]
    /\ Len(log) = 2
    /\ \A i \in 1..2 : log[i].event = "success" /\ log[i].args = "ok"

\* C12: emit(name, args) invokes the listeners registered for name, in
\* registration order, each with args, and no other listener; it changes
\* nothing else, and with no listener for name it invokes nothing and does
\* not raise.  removeListener(name) empties the list of name and only that,
\* so a later emit(name) invokes none of the listeners removed.
C12_ObservableEmit ==
    [][ /\ op'.name = "emit" =>
               /\ emits' = Append(emits, [event |-> op'.event,
                                            args |-> op'.args])
               /\ SubSeq(log', 1, Len(log)) = log
               /\ Regs(NewEntries(log, log')) = listeners[op'.event]
               /\ \A i \in (Len(log) + 1)..Len(log') :
                      /\ log'[i].event = op'.event
                      /\ log'[i].args = op'.args
               /\ listeners[op'.event] = <<>> => (log' = log /\ ~op'.raised)
               /\ UNCHANGED <<hasFired, cancelled, listeners, timeoutDuration,
                              timer, scheduled>>
        /\ op'.name = "removeListener" =>
               /\ listeners'[op'.event] = <<>>
               /\ \A e \in Events \ {op'.event} : listeners'[e] = listeners[e]
               /\ UNCHANGED <<hasFired, cancelled, log, emits>> ]_vars

\* Two listeners of one event were invoked in order by a first emit, were
\* removed, and a second emit of that event invoked nobody.
C12_Witness ==
    /\ op.name = "emit"
    /\ listeners[op.event] = <<>>
    /\ Len(emits) = 2
    /\ emits[1].event = op.event
    /\ emits[2].event = op.event
    /\ Len(log) = 2
    /\ log[1].to.f = "throw"
    /\ log[2].to.f = "plain"


\* C13: once cancelled is true, an emitSuccess or emitError call invokes no
\* listener, whatever was registered since the cancel.
C13_NoDeliveryAfterCancel ==
    [][ (op'.name \in FireOps /\ cancelled) => log' = log ]_vars

\* C14: cancel() leaves hasFired as it was unless one of its listeners fired
\* the promise; on a cancelled promise that has not fired, emitSuccess or
\* emitError sets hasFired and emits its event, and once hasFired is true
\* such a call changes nothing.
C14_FireAfterCancel ==
    [][ /\ (op'.name = "cancel" /\ Fires(emits') = Fires(emits)) =>
               hasFired' = hasFired
        /\ (op'.name \in FireOps /\ cancelled /\ ~hasFired) =>
               /\ hasFired'
               /\ Fires(emits) = <<>>
               /\ Len(Fires(emits')) = 1
               /\ Fires(emits')[1].event =
                      (IF op'.name = "emitSuccess" THEN "success" ELSE "error")
        /\ (op'.name \in FireOps /\ cancelled /\ hasFired) =>
               UNCHANGED state ]_vars

\* cancel() emitted 'cancel', the emitSuccess after it emitted 'success', and
\* the emitError after that did nothing.
C14_Witness ==
    /\ op.name = "emitError"
    /\ cancelled
    /\ hasFired
    /\ emits = <<[event |-> "cancel", args |-> ""],
                 [event |-> "success", args |-> "ok"]>>


\* C15: emitSuccess, emitError and cancel leave the timer handle and the
\* scheduled callback alone; a timer that fires once hasFired or cancelled is
\* true clears the handle and does nothing else: no event, no listener, no
\* change of either flag.
C15_LateTimerOnlyClears ==
    [][ /\ op'.name \in TerminalOps =>
               UNCHANGED <<timer, scheduled>>
        /\ (op'.name = "timer" /\ (hasFired \/ cancelled)) =>
               /\ timer' = NoTimer
               /\ UNCHANGED <<hasFired, cancelled, listeners, log, emits,
                              timeoutDuration, nextReg>> ]_vars

\* The timer armed on a promise fired after cancel(), with an error listener
\* attached since: the handle is cleared, nothing was emitted but 'cancel',
\* and hasFired is still false.
C15_Witness ==
    /\ op.name = "timer"
    /\ cancelled
    /\ ~hasFired
    /\ timer = NoTimer
    /\ timeoutDuration # Undefined
    /\ scheduled = {}
    /\ listeners["error"] # <<>>
    /\ emits = <<[event |-> "cancel", args |-> ""]>>
    /\ log = <<>>


\* C16: a cancel() call on a promise not yet cancelled sets cancelled and
\* empties the success and error lists before it emits 'cancel': the call
\* emits 'cancel' first and once, invokes each cancel listener once, and
\* invokes no success or error listener even when a cancel listener calls
\* emitSuccess, emitError or cancel.
C16_CancelOrder ==
    [][ (op'.name = "cancel" /\ ~cancelled) =>
            /\ cancelled'
            /\ listeners'["success"] = <<>>
            /\ listeners'["error"] = <<>>
            /\ Len(emits') > Len(emits)
            /\ emits'[Len(emits) + 1] = [event |-> "cancel", args |-> ""]
            /\ Len(Cancels(emits')) = 1
            /\ Regs(EntriesOf(log', "cancel")) = listeners["cancel"]
            /\ EntriesOf(log', "success") = EntriesOf(log, "success")
            /\ EntriesOf(log', "error") = EntriesOf(log, "error") ]_vars

\* A success or error listener and a cancel listener that calls emitSuccess
\* were attached; cancel() invoked the cancel listener, whose emitSuccess
\* emitted 'success' to nobody.
C16_Witness ==
    /\ op.name = "cancel"
    /\ nextReg = 2
    /\ Len(listeners["cancel"]) = 1
    /\ listeners["cancel"][1].f = "reSuccess"
    /\ emits = <<[event |-> "cancel", args |-> ""],
                 [event |-> "success", args |-> LateArg]>>
    /\ Len(log) = 1
    /\ log[1].event = "cancel"


\* The timeout error was emitted and the promise has fired.
TimedOut == TimeoutErrs(emits) # <<>> /\ hasFired

\* C17 as stated: with timeout(delay) called only finitely often, after any
\* timeout(delay) call, unless emitSuccess, emitError or cancel is called,
\* the timeout error is eventually emitted and hasFired becomes true.
C17_TimeoutFires_Stated ==
    \/ RearmedForEver
    \/ (op.name = "timeout") ~> (op.name \in TerminalOps \/ TimedOut)

\* C17: with timeout(delay) called only finitely often, after a
\* timeout(delay) call on a promise that has neither fired nor been
\* cancelled, unless emitSuccess, emitError or cancel is called, the timeout
\* error is eventually emitted and hasFired becomes true.
C17_TimeoutFires ==
    \/ RearmedForEver
    \/ (op.name = "timeout" /\ ~hasFired /\ ~cancelled) ~>
           (op.name \in TerminalOps \/ TimedOut)

\* Without the bound on the calls of timeout(delay) the timeout error need
\* not come: the host lets each callback be cleared by the next call.
C17_TimeoutFires_Unbounded ==
    (op.name = "timeout" /\ ~hasFired /\ ~cancelled) ~>
        (op.name \in TerminalOps \/ TimedOut)

\* timeout(50) was rearmed as timeout(100) on a pending promise with an error
\* listener attached, and the timer then fired: the listener received the
\* timeout error.
C17_Witness ==
    /\ op.name = "timer"
    /\ TimedOut
    /\ ~cancelled
    /\ lastDelay = 100
    /\ timeoutDuration = 100
    /\ scheduled = {}
    /\ Len(listeners["error"]) = 1
    /\ Regs(log) = listeners["error"]
    /\ log[1].args = TimeoutError


\* C18: a cancel() call leaves the cancel listeners, timeoutDuration, the
\* timer handle and the scheduled callback as they were, and leaves hasFired
\* as it was unless one of the listeners it invoked fired the promise; of
\* the success and error lists it changes nothing but to empty them.
C18_CancelFrame ==
    [][ op'.name = "cancel" =>
            /\ listeners'["cancel"] = listeners["cancel"]
            /\ UNCHANGED <<timeoutDuration, timer, scheduled, nextReg>>
            /\ (Fires(emits') = Fires(emits)) => hasFired' = hasFired
            /\ \A e \in {"success", "error"} :
                   listeners'[e] \in {listeners[e], <<>>} ]_vars

\* cancel() ran on a promise with a pending timer and a cancel listener: the
\* listener was invoked and is still registered, the timer is still pending
\* under the same handle, and hasFired is still false.
C18_Witness ==
    /\ op.name = "cancel"
    /\ cancelled
    /\ ~hasFired
    /\ timer # NoTimer
    /\ scheduled = {[id |-> timer, delay |-> timeoutDuration]}
    /\ Len(listeners["cancel"]) = 1
    /\ Regs(log) = listeners["cancel"]


\* C19: whether or not a listener raises, and whether or not the call lets
\* the exception out, an emitSuccess or emitError call on a promise that has
\* not fired leaves hasFired true, and one on a promise that has fired
\* changes nothing and raises nothing; a cancel() call on a promise not yet
\* cancelled leaves cancelled true and the success and error lists empty.
C19_RaisingListeners ==
    [][ /\ (op'.name \in FireOps /\ ~hasFired) => hasFired'
        /\ (op'.name \in FireOps /\ hasFired) =>
               (UNCHANGED state /\ ~op'.raised)
        /\ (op'.name = "cancel" /\ ~cancelled) =>
               /\ cancelled'
               /\ listeners'["success"] = <<>>
               /\ listeners'["error"] = <<>> ]_vars

\* emitSuccess raised out of a success listener, after running the listener
\* registered behind it, and hasFired is true.
C19_Witness ==
    /\ op.name = "emitSuccess"
    /\ op.raised
    /\ hasFired
    /\ Len(log) = 2
    /\ log[1].event = "success"
    /\ log[1].to.f = "throw"
    /\ log[2].to.f = "plain"


\* C20: an emitSuccess or emitError call on a promise that has not fired
\* emits one event, the caller's, and invokes each listener of that event
\* once per registration with the caller's argument, also when listeners
\* call emitSuccess or emitError themselves: those calls emit nothing and
\* invoke nobody.
C20_ReentrantFireIgnored ==
    [][ (op'.name \in FireOps /\ ~hasFired) =>
            LET ev == IF op'.name = "emitSuccess" THEN "success" ELSE "error"
            IN /\ Len(Fires(emits')) = 1
               /\ Fires(emits')[1].event = ev
               /\ Fires(emits')[1].args # LateArg
               /\ Regs(EntriesOf(log', ev)) = listeners[ev]
               /\ \A i \in DOMAIN log' :
                      IsFire(log'[i]) =>
                          (log'[i].event = ev /\ log'[i].args # LateArg) ]_vars

\* emitSuccess invoked a listener that calls emitSuccess and then one that
\* calls emitError: each ran once with "ok" and 'success' is the only event.
C20_Witness ==
    /\ op.name = "emitSuccess"
    /\ emits = <<[event |-> "success", args |-> "ok"]>>
    /\ Len(log) = 2
    /\ log[1].to.f = "reSuccess"
    /\ log[2].to.f = "reError"
    /\ \A i \in 1..2 : log[i].args = "ok"


\* C21: no listener is invoked for an event that came before it was
\* registered: a success or error listener registered once hasFired was true
\* is never invoked, and a cancel listener registered once cancelled was true
\* is never invoked.
C21_NoReplay ==
    \A i \in DOMAIN log :
        /\ IsFire(log[i]) => ~log[i].to.fired
        /\ IsCancel(log[i]) => ~log[i].to.cancelled

\* A success listener was attached after the promise fired and a cancel
\* listener after it was cancelled; the cancel() call that followed invoked
\* neither, and no listener was ever invoked.
C21_Witness ==
    /\ op.name = "cancel"
    /\ hasFired
    /\ cancelled
    /\ Len(listeners["success"]) = 1
    /\ listeners["success"][1].fired
    /\ Len(listeners["cancel"]) = 1
    /\ listeners["cancel"][1].cancelled
    /\ Len(emits) = 2
    /\ log = <<>>

====
